---- MODULE Spec2Model ----
(***************************************************************************)
(* Toxella backend: the Pub/Sub worker pipeline (src/worker/index.js) and  *)
(* the HTTP API that registers jobs (src/unnamed/part_000, src/api).       *)
(*                                                                         *)
(* src/worker/index.js holds two definitions of the worker, one after the  *)
(* other (lines 1-310 and 312-498).  Which of them serves a deployment is  *)
(* not fixed by the file, so the model keeps both: impl = 1 is the first   *)
(* definition, impl = 2 the second.                                        *)
(***************************************************************************)
EXTENDS Integers, Sequences, FiniteSets, TLC

\* ------------------------------------------------------------ bounds
\* Largest number of files a registration request carries in the model.
MaxFiles == 2
\* Number of requests served in a behaviour: API requests and deliveries to
\* the worker together.
MaxRequests == 3

\* Longest tactics list handed to normalizeReport in the model.
MaxTactics == 23

\* ------------------------------------------------------------ program constants
FREE_MAX == 3
PRO_MAX == 15
\* String(e.message || e).slice(0, 500)
ErrSlice == 500

\* ------------------------------------------------------------ universes
JobIds == {"j1", "j2"}
Users == {"u1"}
NoUser == "null"
Plans == {"free", "pro"}
Runs == {"r1", "r2"}
Impls == {1, 2}
\* lengths of the messages of the errors a failing call raises
ErrLens == {40, 600}

NoDoc == [absent |-> TRUE]

Path(j, i) == [job |-> j, idx |-> i]

\* `uploads/${jobId}/${i}.jpg` for i in 0..count-1
SignedPaths(j, count) == [i \in 1..count |-> Path(j, i - 1)]

\* The objects clients PUT to signed URLs: the images of j1 and the first
\* image of j2.
AllPaths == {Path("j1", i) : i \in 0..(MaxFiles - 1)} \cup {Path("j2", 0)}
\* What the bucket holds when the behaviour starts: every image, every image
\* but the first of j1 (an upload that failed), or none.
Uploads == {AllPaths, AllPaths \ {Path("j1", 0)}, {}}

maxForPlan(plan) == IF plan = "pro" THEN PRO_MAX ELSE FREE_MAX

Min(a, b) == IF a < b THEN a ELSE b

\* ------------------------------------------------------------ OCR text
\* A text is a sequence of tokens.  Ui is a piece of messaging-UI chrome
\* ("Delivered", "Today", "9:41 AM"), Sp a run of blanks, Nl a line break,
\* Msg(p) the conversation text shown in the image stored at p.
Ui == [t |-> "ui", job |-> "", idx |-> 0]
Sp == [t |-> "sp", job |-> "", idx |-> 0]
Nl == [t |-> "nl", job |-> "", idx |-> 0]
Msg(p) == [t |-> "msg", job |-> p.job, idx |-> p.idx]
Sentinel == <<[t |-> "NO_TEXT_EXTRACTED", job |-> "", idx |-> 0]>>

\* What documentTextDetection reads in the image stored at p: image 0 of a
\* job shows chrome and a message, image 1 chrome only, later images a message;
\* the images uploaded for j2 show no text (fullTextAnnotation?.text || '').
ocrBuffer(p) ==
    CASE p.job = "j2" -> <<>>
      [] p.idx = 0 -> <<Ui, Nl, Msg(p)>>
      [] p.idx = 1 -> <<Ui>>
      [] OTHER -> <<Msg(p)>>

\* texts.join('\n\n')
RECURSIVE JoinTexts(_)
JoinTexts(texts) ==
    IF texts = <<>> THEN <<>>
    ELSE IF Len(texts) = 1 THEN texts[1]
    ELSE texts[1] \o <<Nl, Nl>> \o JoinTexts(Tail(texts))

\* .replace(/\b(Messages|...|Read)\b/gi, ' ') and the two replaces after it
ReplaceUi(s) == [k \in 1..Len(s) |-> IF s[k] = Ui THEN Sp ELSE s[k]]

\* .replace(/[ \t]+\n/g, '\n'): blanks right before a line break go
RECURSIVE DropSpBeforeNl(_)
DropSpBeforeNl(s) ==
    IF s = <<>> THEN <<>>
    ELSE IF s[1] = Sp /\ Len(s) > 1 /\ s[2] = Nl THEN DropSpBeforeNl(Tail(s))
    ELSE <<s[1]>> \o DropSpBeforeNl(Tail(s))

\* .replace(/\n{3,}/g, '\n\n'): three or more line breaks become two
RECURSIVE CollapseNl(_)
CollapseNl(s) ==
    IF Len(s) >= 3 /\ s[1] = Nl /\ s[2] = Nl /\ s[3] = Nl THEN CollapseNl(Tail(s))
    ELSE IF s = <<>> THEN <<>>
    ELSE <<s[1]>> \o CollapseNl(Tail(s))

IsBlank(tok) == tok = Sp \/ tok = Nl

RECURSIVE TrimLeft(_)
TrimLeft(s) == IF s # <<>> /\ IsBlank(s[1]) THEN TrimLeft(Tail(s)) ELSE s

RECURSIVE TrimRight(_)
TrimRight(s) ==
    IF s # <<>> /\ IsBlank(s[Len(s)]) THEN TrimRight(SubSeq(s, 1, Len(s) - 1)) ELSE s

cleanOcr(s) ==
    IF s = <<>> THEN <<>>
    ELSE TrimRight(TrimLeft(CollapseNl(DropSpBeforeNl(ReplaceUi(s)))))

\* ocrText: ocrCombined || 'NO_TEXT_EXTRACTED'
OcrTextFor(texts) ==
    LET c == cleanOcr(JoinTexts(texts)) IN IF c = <<>> THEN Sentinel ELSE c

\* normalizeTimeline: split on blank lines, trim each piece, drop the empty ones
RECURSIVE SplitBlank(_, _)
SplitBlank(s, cur) ==
    IF s = <<>> THEN <<cur>>
    ELSE IF Len(s) >= 2 /\ s[1] = Nl /\ s[2] = Nl
         THEN <<cur>> \o SplitBlank(TrimLeft(s), <<>>)
    ELSE SplitBlank(Tail(s), Append(cur, s[1]))

normalizeTimeline(fullText) ==
    LET parts == SplitBlank(fullText, <<>>)
        trimmed == [k \in 1..Len(parts) |-> TrimRight(TrimLeft(parts[k]))]
    IN SelectSeq(trimmed, LAMBDA x : x # <<>>)

\* ------------------------------------------------------------ scoring
\* JavaScript values as normalizeReport meets them in a parsed JSON object.
\* Numbers are exact, counted in hundredths: Num(85) is 0.85, Num(500) is 5.
\* NaN is the value arithmetic on a non-number gives.
Scale == 100
Undef == [t |-> "undefined", n |-> 0, s |-> ""]
Null == [t |-> "null", n |-> 0, s |-> ""]
NaN == [t |-> "NaN", n |-> 0, s |-> ""]
Obj == [t |-> "object", n |-> 0, s |-> ""]
Num(n) == [t |-> "number", n |-> n, s |-> ""]
Str(s) == [t |-> "string", n |-> 0, s |-> s]
\* an array of n elements
Arr(n) == [t |-> "array", n |-> n, s |-> ""]
\* the integer k as a number
Whole(k) == Num(k * Scale)

IsNum(v) == v.t = "number"
\* a || b
Truthy(v) ==
    \/ v.t \in {"object", "array"}
    \/ v.t = "number" /\ v.n # 0
    \/ v.t = "string" /\ v.s # ""
Or(a, b) == IF Truthy(a) THEN a ELSE b
\* a ?? b
Nullish(a, b) == IF a.t \in {"undefined", "null"} THEN b ELSE a
\* Number(v): the strings of the model are words, not numerals
Number(v) ==
    CASE v.t = "number" -> v
      [] v.t = "null" -> Num(0)
      [] v.t = "string" /\ v.s = "" -> Num(0)
      [] v.t = "array" /\ v.n = 0 -> Num(0)
      [] OTHER -> NaN
\* Math.min, Math.max: NaN when either argument is
MathMin(a, b) == IF ~IsNum(a) \/ ~IsNum(b) THEN NaN ELSE IF a.n < b.n THEN a ELSE b
MathMax(a, b) == IF ~IsNum(a) \/ ~IsNum(b) THEN NaN ELSE IF a.n > b.n THEN a ELSE b
\* v?.length
LengthOf(v) == IF v.t = "array" THEN Whole(v.n) ELSE Undef
\* Math.round(a / b) for b > 0: the nearest integer, halves upwards
RoundDiv(a, b) == (2 * a + b) \div (2 * b)

TACTIC_IDS ==
    {"gaslighting", "darvo", "blame-shifting", "minimization", "stonewalling",
     "contempt", "guilt-tripping", "threats", "coercion", "triangulation",
     "boundaries", "projection"}

\* RISK_WEIGHTS[id] || 1.0, in hundredths
RISK_WEIGHTS(id) ==
    CASE id = "threats" -> 140
      [] id = "coercion" -> 130
      [] id = "gaslighting" -> 120
      [] id = "darvo" -> 110
      [] id = "stonewalling" -> 95
      [] id = "contempt" -> 105
      [] OTHER -> 100

\* function clamp(n, lo, hi){ n = Number(n||0); return Math.max(lo, Math.min(hi, n)); }
clamp(n, lo, hi) == MathMax(Whole(lo), MathMin(Whole(hi), Number(Or(n, Num(0)))))

\* severity counted from 0 instead of 1
ScoreSum_SeverityFromZero(p, s, f) ==
    160 * p.n + 35 * s.n + 20 * MathMin(Whole(5), f).n

\* 40*p + 35*((s-1)/4) + 25*Math.min(1, f/5), times 4 * Scale
ScoreSum(p, s, f) ==
    160 * p.n + 35 * (s.n - Scale) + 20 * MathMin(Whole(5), f).n

\* function tacticScore(t)
tacticScore(t) ==
    LET p == clamp(t.likelihood, 0, 1)
        s == clamp(t.severity, 1, 5)
        f == MathMin(Whole(5), Number(Nullish(t.frequency, Or(LengthOf(t.examples), Num(0)))))
    IN IF IsNum(p) /\ IsNum(s) /\ IsNum(f)
       THEN Whole(RoundDiv(ScoreSum(p, s, f), 4 * Scale))
       ELSE NaN

\* the thresholds one off: score <= 34, score <= 67
riskLabel_OffByOne(score) ==
    IF IsNum(score) /\ score.n <= 34 * Scale THEN "low"
    ELSE IF IsNum(score) /\ score.n <= 67 * Scale THEN "medium"
    ELSE "high"

\* function riskLabel(score): a comparison with NaN is false
riskLabel(score) ==
    IF IsNum(score) /\ score.n < 34 * Scale THEN "low"
    ELSE IF IsNum(score) /\ score.n <= 66 * Scale THEN "medium"
    ELSE "high"

\* (t.id || t.name || "").toString().toLowerCase()
toLowerCase(s) ==
    CASE s = "THREATS" -> "threats"
      [] s = "Gaslighting" -> "gaslighting"
      [] OTHER -> s
\* a number gives its numeral, an array its elements joined by commas
toString(v) ==
    CASE v.t = "string" -> v.s
      [] v.t = "number" -> "numeral"
      [] v.t = "array" -> "elements"
      [] OTHER -> "[object Object]"

\* the length in characters of an example quote, when nothing else is said
QuoteLen == 40

\* An entry of raw.tactics: an object with the fields normalizeReport reads,
\* null, or a primitive (a number, a string), whose every property is
\* undefined.  quotes holds the length of each element of examples.
Tactic(id, name, likelihood, p, severity, frequency, examples) ==
    [kind |-> "object", id |-> id, name |-> name, likelihood |-> likelihood, p |-> p,
     severity |-> severity, frequency |-> frequency, examples |-> examples,
     quotes |-> IF examples.t = "array" THEN [k \in 1..examples.n |-> QuoteLen] ELSE <<>>]
NullEntry == [Tactic(Undef, Undef, Undef, Undef, Undef, Undef, Undef) EXCEPT !.kind = "null"]
PrimitiveEntry ==
    [Tactic(Undef, Undef, Undef, Undef, Undef, Undef, Undef) EXCEPT !.kind = "primitive"]

\* the body of list.map(t => { ... }) for an entry that is not null
NormTactic(t) ==
    LET id == toLowerCase(toString(Or(Or(t.id, t.name), Str(""))))
        obj == [id |-> IF id # "" /\ id \in TACTIC_IDS THEN id ELSE "other",
                likelihood |-> clamp(Nullish(Nullish(t.likelihood, t.p), Num(0)), 0, 1),
                severity |-> clamp(Nullish(t.severity, Whole(3)), 1, 5),
                frequency |-> MathMax(Num(0), MathMin(Whole(5),
                                 Number(Nullish(t.frequency, Or(LengthOf(t.examples), Num(0)))))),
                examples |-> IF t.examples.t = "array" THEN Arr(Min(t.examples.n, 5))
                             ELSE Arr(0),
                \* slice(0,5) keeps the first five elements as they are
                quotes |-> IF t.examples.t = "array"
                           THEN SubSeq(t.quotes, 1, Min(t.examples.n, 5))
                           ELSE <<>>]
    IN [id |-> obj.id, likelihood |-> obj.likelihood, severity |-> obj.severity,
        frequency |-> obj.frequency, examples |-> obj.examples, quotes |-> obj.quotes,
        score |-> tacticScore(obj), contribution_pct |-> Num(0)]

\* the parsed object: raw.tactics is a list of entries when it is an array;
\* highlights is raw.receipts.highlights, there when raw.receipts is an object
Raw(confidence, risk_label, isArray, tactics, receipts, highlights) ==
    [confidence |-> confidence, risk_label |-> risk_label,
     tactics |-> [isArray |-> isArray, items |-> tactics],
     receipts |-> receipts, highlights |-> highlights]
\* {}
EmptyRaw == Raw(Undef, Undef, FALSE, <<>>, Undef, Undef)

\* den counting the entries, not their weights
SumWeights_Unweighted(ts) == 100 * Len(ts)

\* a synthetic entry that is not zero
SyntheticEntry_Mid == [id |-> "other", score |-> Whole(50)]

\* [{ id:"other", score:0 }]
SyntheticEntry == [id |-> "other", score |-> Num(0)]

\* for (const t of seen): den, and sumWeightScore (num is sumWeightScore / 100)
RECURSIVE SumWeights(_)
SumWeights(ts) ==
    IF ts = <<>> THEN 0 ELSE RISK_WEIGHTS(ts[1].id) + SumWeights(Tail(ts))
RECURSIVE SumWeightScore(_)
SumWeightScore(ts) ==
    IF ts = <<>> THEN 0
    ELSE (ts[1].score.n \div Scale) * RISK_WEIGHTS(ts[1].id) + SumWeightScore(Tail(ts))

\* what normalizeReport gives when it throws
Threw ==
    [threw |-> TRUE, risk_score |-> Num(0), risk_label |-> Str("low"),
     confidence |-> Num(0), tactics |-> <<>>, receipts |-> Arr(0)]

\* function normalizeReport(raw); kpis, narrative_md and each tactic's name
\* are carried through and are left out here
normalizeReport(raw) ==
    LET list == IF raw.tactics.isArray THEN raw.tactics.items ELSE <<>>
        tactics == [k \in 1..Len(list) |-> NormTactic(list[k])]
        seen == IF tactics # <<>> THEN tactics ELSE <<SyntheticEntry>>
        allNum == \A k \in 1..Len(seen) : IsNum(seen[k].score)
        den == SumWeights(seen)
        sumWeightScore == IF allNum THEN SumWeightScore(seen) ELSE 0
        risk_score == IF allNum THEN Whole(RoundDiv(sumWeightScore, den)) ELSE NaN
        pct(t) == IF allNum /\ sumWeightScore > 0
                  THEN Num(10 * RoundDiv(1000 * (t.score.n \div Scale) * RISK_WEIGHTS(t.id),
                                         sumWeightScore))
                  ELSE Num(0)
    IN \* t.id with t null: TypeError
       IF \E k \in 1..Len(list) : list[k].kind = "null" THEN Threw
       ELSE [threw |-> FALSE,
             risk_score |-> risk_score,
             risk_label |-> Or(raw.risk_label, Str(riskLabel(risk_score))),
             confidence |-> clamp(Nullish(raw.confidence, Num(85)), 0, 1),
             tactics |-> [k \in 1..Len(tactics) |->
                            [tactics[k] EXCEPT !.contribution_pct = pct(tactics[k])]],
             receipts |-> IF raw.receipts.t = "array" THEN Arr(Min(raw.receipts.n, 30))
                          ELSE IF raw.receipts.t \notin {"undefined", "null"}
                                  /\ raw.highlights.t = "array"
                               THEN Arr(Min(raw.highlights.n, 30))
                          ELSE Arr(0)]

\* ------------------------------------------------------------ documents
NoErr == [kind |-> "none", len |-> 0]
\* error: { code: 'too_many_files', message: `max ${maxAllowed} for plan` }
TooManyFiles == [kind |-> "too_many_files", len |-> 0]
\* error: String(e.message || e).slice(0, 500)
ErrString(len) == [kind |-> "string", len |-> Min(len, ErrSlice)]

\* the document POST /jobs writes with docRef.set
NewJob(plan, userId, files) ==
    [plan |-> plan, userId |-> userId, files |-> files, status |-> "uploaded",
     reportId |-> "", error |-> NoErr, warn |-> FALSE, userDeleted |-> FALSE]

NoJson == [shape |-> "none", about |-> <<>>]

\* the document the worker writes with reportsCol.doc(reportId).set
NewReport(jobId, userId, json) ==
    [jobId |-> jobId, userId |-> userId, json |-> json, images_deleted |-> FALSE,
     old |-> FALSE]

\* ------------------------------------------------------------ classification
\* The model's reply to a text: a JSON object about that text, or text that
\* holds no JSON object at all.
\* The JSON object carries, besides what it says about the text, the fields
\* normalizeReport reads: raw.
Reply(isJson, about, raw) == [isJson |-> isJson, about |-> about, raw |-> raw]
\* an object of the shape the instructions ask for
GoodRaw ==
    Raw(Num(90), Undef, TRUE,
        <<Tactic(Str("threats"), Undef, Num(50), Undef, Whole(3), Whole(2), Arr(2))>>,
        Arr(3), Undef)
\* { "tactics": [null] }
NullTacticRaw == Raw(Undef, Undef, TRUE, <<NullEntry>>, Undef, Undef)
Replies(text) ==
    {Reply(TRUE, text, GoodRaw), Reply(TRUE, text, NullTacticRaw),
     Reply(FALSE, <<>>, EmptyRaw)}

\* extractJson: the parsed object, {} when the text holds none
extractJson(reply) == IF reply.isJson THEN reply.about ELSE <<>>
\* extractJson, as the argument of normalizeReport
ParsedRaw(reply) == IF reply.isJson THEN reply.raw ELSE EmptyRaw
\* normalizeReport(raw) throws, and analyzeWithOpenAI with it
Raises(reply) == normalizeReport(ParsedRaw(reply)).threw
\* first definition: normalizeReport(extractJson(text) || {}), a canonical
\* report whose content is decided by the object extracted
analyzeWithOpenAI(reply) == [shape |-> "normalized", about |-> extractJson(reply)]
\* second definition: JSON.parse(jsonText), the object as the model gave it
analyzeWithOpenAI2(reply) == [shape |-> "raw", about |-> reply.about]

\* ------------------------------------------------------------ state
VARIABLES
    impl,       \* which definition of the worker is deployed
    jobs,       \* the jobs collection: jobId -> document or NoDoc
    reports,    \* the reports collection: reportId -> document or NoDoc
    objects,    \* the paths of the upload bucket that hold an object
    published,  \* job references published to the topic
    run,        \* the pipeline runs: one record per delivery
    requests,   \* requests served so far, API requests and deliveries
    purged,     \* jobs for which some run's purge fully succeeded
    flagBy,     \* who set images_deleted of the stored report: none, run, sweeper
    norm,       \* a call of one of the scoring functions: its argument and result
    wiped       \* jobs a completed POST /delete-all marked, not registered since

vars == <<impl, jobs, reports, objects, published, run, requests,
          purged, flagBy, norm, wiped>>

\* no call of a scoring function under way
NormIdle == [kind |-> "none", done |-> FALSE]
\* a call: its kind (raw, tactic, score), its argument in the field of that
\* kind and, once done, its result in out, result or label
NormCall ==
    [kind |-> "none", done |-> FALSE, raw |-> EmptyRaw,
     tactic |-> NormTactic(PrimitiveEntry), score |-> Num(0),
     out |-> Threw, result |-> Num(0), label |-> ""]

IdleRun ==
    [pc |-> "idle", jobId |-> "", plan |-> "", files |-> <<>>, userId |-> NoUser,
     i |-> 0, texts |-> <<>>, json |-> NoJson, deleted |-> FALSE,
     code |-> 0, body |-> "",
     \* history of the run, read by the properties only
     \*   over: the loaded job had more files than its plan allows
     \*   writes: the status writes the store accepted, in order, the
     \*     too_many_files error written as "too_many_files"
     \*   did: the calls made (fetch, ocr, classify, report, delete, flag)
     \*   fail: the step that threw; transient: a file was lost to a failure
     \*     other than the object being gone
     \*   seen: the stored report when the job was loaded complete
     \*   allPresent: every file of the job was in the bucket at load
     \*   asked, got: the text given to the classifier and the report it led to
     over |-> FALSE, writes |-> <<>>, did |-> {}, fail |-> "none", transient |-> FALSE,
     seen |-> NoJson, allPresent |-> FALSE, asked |-> <<>>, got |-> NoJson]

\* A job document that predates the limits in force: more files than its plan
\* allows now (the "stale or tampered" document the plan-limit check is for).
StaleJob(j) == NewJob("free", NoUser, SignedPaths(j, FREE_MAX + 1))

Init ==
    /\ impl \in Impls
    /\ jobs = [j \in JobIds |-> IF j = "j2" THEN StaleJob(j) ELSE NoDoc]
    /\ reports = [j \in JobIds |-> NoDoc]
    /\ objects \in Uploads
    /\ published = {}
    /\ run = [r \in Runs |-> IdleRun]
    /\ requests = 0
    /\ purged = {}
    /\ flagBy = [j \in JobIds |-> "none"]
    /\ norm = NormIdle
    /\ wiped = {}

\* ------------------------------------------------------------ worker
\* res.status(...).send(...): the handler returns and its locals are gone
Respond(rec, code, body) ==
    [rec EXCEPT !.pc = "done", !.code = code, !.body = body,
                !.plan = "", !.files = <<>>, !.userId = NoUser, !.i = 0,
                !.texts = <<>>, !.json = NoJson]

\* if (!msg || !msg.data) return res.status(...).send('no-message')
NoMessageCode(v) == IF v = 1 THEN 200 ELSE 400
\* if (!jobSnap.exists) return res.status(...).send('job-not-found')
JobNotFoundCode(v) == IF v = 1 THEN 200 ELSE 404

\* An exception inside the handler's try.  First definition: the catch block
\* goes on to write the error to the job; second: it only answers 200.
Thrown(v, rec, step) ==
    IF v = 1
    THEN [rec EXCEPT !.pc = "catch", !.fail = step]
    ELSE [Respond(rec, 200, "ok") EXCEPT !.fail = step]

Messages ==
    {[kind |-> k, jobId |-> ""] : k \in {"none", "garbage", "nojobid"}}
    \cup {[kind |-> "ref", jobId |-> j] : j \in JobIds}

\* app.post('/_pubsub/analyze'): the delivery, up to the first await
Receive(r, m) ==
    \* a handler instance serves one delivery at a time
    /\ run[r].pc \in {"idle", "done"}
    /\ requests < MaxRequests
    /\ requests' = requests + 1
    /\ run' = [run EXCEPT ![r] =
         CASE m.kind = "none" -> Respond(IdleRun, NoMessageCode(impl), "no-message")
           \* JSON.parse(b64(msg.data)) throws, and throws again in the catch
           \* block, where the inner try swallows it
           [] m.kind = "garbage" -> [Respond(IdleRun, 200, "ok") EXCEPT !.fail = "parse"]
           \* jobsCol.doc(undefined) throws; the catch block finds no jobId
           [] m.kind = "nojobid" -> [Respond(IdleRun, 200, "ok") EXCEPT !.fail = "parse"]
           [] OTHER -> [IdleRun EXCEPT !.pc = "get", !.jobId = m.jobId]]
    /\ UNCHANGED <<impl, norm, wiped, jobs, reports, objects, published,
                   purged, flagBy>>

\* the plan-limit test left out
OverLimit_Unchecked(job) == FALSE

\* if ((job.files || []).length > maxAllowed)
OverLimit(job) == Len(job.files) > maxForPlan(job.plan)

\* const jobSnap = await jobRef.get(); ... the plan-limit test
GetJob(r) ==
    /\ run[r].pc = "get"
    /\ LET j == run[r].jobId IN
       \/ run' = [run EXCEPT ![r] = Thrown(impl, @, "get")]
       \/ /\ jobs[j] = NoDoc
          /\ run' = [run EXCEPT ![r] = Respond(@, JobNotFoundCode(impl), "job-not-found")]
       \/ /\ jobs[j] # NoDoc
          /\ run' = [run EXCEPT ![r] =
                [@ EXCEPT !.pc = IF OverLimit(jobs[j]) THEN "limit" ELSE "processing",
                          !.plan = jobs[j].plan,
                          !.files = jobs[j].files,
                          !.userId = jobs[j].userId,
                          !.over = Len(jobs[j].files) > maxForPlan(jobs[j].plan),
                          !.seen = IF jobs[j].status = "complete" /\ reports[j] # NoDoc
                                   THEN reports[j].json ELSE NoJson,
                          !.allPresent = \A k \in 1..Len(jobs[j].files) :
                                            jobs[j].files[k] \in objects]]
    /\ UNCHANGED <<impl, norm, wiped, jobs, reports, objects, published, requests,
                   purged, flagBy>>

\* a status write of the run that the store accepted
Wrote(rec, status) == [rec EXCEPT !.writes = Append(@, status)]

\* await jobRef.update({ status: 'error', error: { code: 'too_many_files', ... } })
LimitWrite(r) ==
    /\ run[r].pc = "limit"
    /\ LET j == run[r].jobId IN
       \/ /\ jobs' = [jobs EXCEPT ![j].status = "error", ![j].error = TooManyFiles]
          /\ run' = [run EXCEPT ![r] = Respond(Wrote(@, "too_many_files"), 200, "ok")]
       \/ /\ run' = [run EXCEPT ![r] = Thrown(impl, @, "limit")]
          /\ UNCHANGED jobs
    /\ UNCHANGED <<impl, norm, wiped, reports, objects, published, requests, purged, flagBy>>

\* the loop "for (const f of job.files || [])" starts, or is skipped when empty
AfterProcessing(rec) ==
    IF rec.files = <<>> THEN [rec EXCEPT !.pc = "classify"]
    ELSE [rec EXCEPT !.pc = "ocr", !.i = 1]

\* the rejected update swallowed, the run going on to the files
ProcessingFailed_Swallowed(v, rec) == AfterProcessing([rec EXCEPT !.fail = "processing"])

\* the update to processing rejects: the exception leaves the try block
ProcessingFailed(v, rec) == Thrown(v, rec, "processing")

\* await jobRef.update({ status: 'processing', ... })
SetProcessing(r) ==
    /\ run[r].pc = "processing"
    /\ LET j == run[r].jobId IN
       \/ /\ jobs' = [jobs EXCEPT ![j].status = "processing"]
          /\ run' = [run EXCEPT ![r] = AfterProcessing(Wrote(@, "processing"))]
       \/ /\ run' = [run EXCEPT ![r] = ProcessingFailed(impl, @)]
          /\ UNCHANGED jobs
    /\ UNCHANGED <<impl, norm, wiped, reports, objects, published, requests, purged, flagBy>>

\* the loop moves to the next file, or ends
NextFile(rec) ==
    IF rec.i < Len(rec.files) THEN [rec EXCEPT !.i = @ + 1]
    ELSE [rec EXCEPT !.pc = "classify"]

\* A file whose download, preprocessing or OCR threw.  First definition: the
\* try inside the loop logs it and the loop goes on; second: no try there.
OcrFailed(v, rec, why) ==
    IF v = 1
    THEN NextFile([rec EXCEPT !.did = @ \cup {"fetch"}, !.transient = @ \/ why = "transient"])
    ELSE Thrown(v, [rec EXCEPT !.did = @ \cup {"fetch"}, !.transient = @ \/ why = "transient"], "ocr")

\* preprocessImageToBuffer(UPLOAD_BUCKET, f.path); ocrBuffer(buf); texts.push(fullText)
OcrFile(r) ==
    /\ run[r].pc = "ocr"
    /\ LET p == run[r].files[run[r].i] IN
       \/ /\ p \in objects
          /\ run' = [run EXCEPT ![r] =
                NextFile([@ EXCEPT !.texts = Append(@, ocrBuffer(p)),
                                   !.did = @ \cup {"fetch", "ocr"}])]
       \* the object is there and the download, sharp or the OCR call fails
       \/ /\ p \in objects
          /\ run' = [run EXCEPT ![r] = OcrFailed(impl, @, "transient")]
       \* no such object: download() rejects
       \/ /\ p \notin objects
          /\ run' = [run EXCEPT ![r] = OcrFailed(impl, @, "absent")]
    /\ UNCHANGED <<impl, norm, wiped, jobs, reports, objects, published, requests,
                   purged, flagBy>>

\* the text handed to the model: cleaned OCR text or the sentinel (first
\* definition), the timeline of the joined texts (second)
ClassifierInput(v, texts) ==
    IF v = 1 THEN OcrTextFor(texts) ELSE normalizeTimeline(JoinTexts(texts))

\* the files purged right after the classification, before the report write
Classified_PurgeFirst(rec, json) == [rec EXCEPT !.pc = "purge", !.json = json, !.got = json]

\* reportJson is bound and the run goes on to the report write
Classified(rec, json) == [rec EXCEPT !.pc = "report", !.json = json, !.got = json]

\* const reportJson = await analyzeWithOpenAI(...)
Classify(r) ==
    /\ run[r].pc = "classify"
    /\ LET text == ClassifierInput(impl, run[r].texts)
           asked == [run[r] EXCEPT !.did = @ \cup {"classify"}, !.asked = text]
       IN
       \* the API call rejects (or, first definition, no API key is set)
       \/ run' = [run EXCEPT ![r] = Thrown(impl, asked, "classify")]
       \/ \E reply \in Replies(text) :
            IF impl = 1
            THEN IF Raises(reply)
                 THEN run' = [run EXCEPT ![r] = Thrown(impl, asked, "normalize")]
                 ELSE run' = [run EXCEPT ![r] = Classified(asked, analyzeWithOpenAI(reply))]
            ELSE IF reply.isJson
            THEN run' = [run EXCEPT ![r] = Classified(asked, analyzeWithOpenAI2(reply))]
            \* JSON.parse throws
            ELSE run' = [run EXCEPT ![r] = Thrown(impl, asked, "malformed")]
    /\ UNCHANGED <<impl, norm, wiped, jobs, reports, objects, published, requests,
                   purged, flagBy>>

\* the rejected write swallowed, the run going on to the purge
ReportFailed_Swallowed(v, rec) == [rec EXCEPT !.pc = "purge", !.fail = "report"]

\* the report write rejects: the exception leaves the try block
ReportFailed(v, rec) == Thrown(v, rec, "report")

\* await reportsCol.doc(reportId).set({ ..., images_deleted: false, ... })
WriteReport(r) ==
    /\ run[r].pc = "report"
    /\ LET j == run[r].jobId IN
       \/ /\ reports' = [reports EXCEPT ![j] = NewReport(j, run[r].userId, run[r].json)]
          /\ flagBy' = [flagBy EXCEPT ![j] = "none"]
          /\ run' = [run EXCEPT ![r] = [@ EXCEPT !.pc = "purge", !.did = @ \cup {"report"}]]
       \/ /\ run' = [run EXCEPT ![r] = ReportFailed(impl, @)]
          /\ UNCHANGED <<reports, flagBy>>
    /\ UNCHANGED <<impl, norm, wiped, jobs, objects, published, requests, purged>>

FileSet(files) == {files[k] : k \in 1..Len(files)}

\* purgeImages(job.files): every delete is issued; one that finds no object
\* succeeds (ignoreNotFound), one that finds it removes it or rejects; the
\* result is true when none rejected.
purgeImages(r, failing) ==
    /\ objects' = objects \ (FileSet(run[r].files) \ failing)
    /\ run' = [run EXCEPT ![r] =
          [@ EXCEPT !.pc = "finalize", !.deleted = (failing = {}),
                    !.did = @ \cup (IF run[r].files = <<>> THEN {} ELSE {"delete"})]]
    /\ purged' = IF failing = {} THEN purged \cup {run[r].jobId} ELSE purged

\* const deleted = await purgeImages(job.files)
Purge(r) ==
    /\ run[r].pc = "purge"
    /\ \E failing \in SUBSET (FileSet(run[r].files) \cap objects) : purgeImages(r, failing)
    /\ UNCHANGED <<impl, norm, wiped, jobs, reports, published, requests, flagBy>>

\* the report flagged whatever the purge returned
AfterFinalize_NoTest(rec) == [rec EXCEPT !.pc = "flag"]

\* after the status write: if (deleted) update the report, else answer
AfterFinalize(rec) ==
    IF rec.deleted THEN [rec EXCEPT !.pc = "flag"] ELSE Respond(rec, 200, "ok")

\* await jobRef.update({ status: 'complete', reportId, ...(deleted ? {} : { warn }) })
Finalize(r) ==
    /\ run[r].pc = "finalize"
    /\ LET j == run[r].jobId IN
       \/ /\ jobs' = [jobs EXCEPT ![j].status = "complete", ![j].reportId = j,
                                  ![j].warn = IF run[r].deleted THEN @ ELSE TRUE]
          /\ run' = [run EXCEPT ![r] = AfterFinalize(Wrote(@, "complete"))]
       \/ /\ run' = [run EXCEPT ![r] = Thrown(impl, @, "finalize")]
          /\ UNCHANGED jobs
    /\ UNCHANGED <<impl, norm, wiped, reports, objects, published, requests, purged, flagBy>>

\* await reportsCol.doc(reportId).update({ images_deleted: true, ... })
\* update() rejects when the document is gone
Flag(r) ==
    /\ run[r].pc = "flag"
    /\ LET j == run[r].jobId IN
       \/ /\ reports[j] # NoDoc
          /\ reports' = [reports EXCEPT ![j].images_deleted = TRUE]
          /\ flagBy' = [flagBy EXCEPT ![j] = "run"]
          /\ run' = [run EXCEPT ![r] = Respond([@ EXCEPT !.did = @ \cup {"flag"}], 200, "ok")]
       \/ /\ run' = [run EXCEPT ![r] = Thrown(impl, @, "flag")]
          /\ UNCHANGED <<reports, flagBy>>
    /\ UNCHANGED <<impl, norm, wiped, jobs, objects, published, requests, purged>>

\* the catch block putting the job back in processing
CatchStatus_Retry == "processing"

\* the status the catch block writes to the job
CatchStatus == "error"

\* catch (e) of the first definition: update the job with status error and
\* the sliced message, swallow a failure of that update, answer 200
Catch(r) ==
    /\ run[r].pc = "catch"
    /\ LET j == run[r].jobId IN
       \/ /\ jobs[j] # NoDoc
          /\ \E len \in ErrLens :
                jobs' = [jobs EXCEPT ![j].status = CatchStatus, ![j].error = ErrString(len)]
          /\ run' = [run EXCEPT ![r] = Respond(Wrote(@, CatchStatus), 200, "ok")]
       \/ /\ UNCHANGED jobs
          /\ run' = [run EXCEPT ![r] = Respond(@, 200, "ok")]
    /\ UNCHANGED <<impl, norm, wiped, reports, objects, published, requests, purged, flagBy>>

Worker(r) ==
    \/ \E m \in Messages : Receive(r, m)
    \/ GetJob(r)
    \/ LimitWrite(r)
    \/ SetProcessing(r)
    \/ OcrFile(r)
    \/ Classify(r)
    \/ WriteReport(r)
    \/ Purge(r)
    \/ Finalize(r)
    \/ Flag(r)
    \/ Catch(r)

\* ------------------------------------------------------------ API
\* what a client sends as files: the paths signed for some job, in order
ReqCounts == 0..MaxFiles \cup {FREE_MAX + 1}
Req(j, pl, u, files) == [jobId |-> j, plan |-> pl, userId |-> u, files |-> files]
\* The request bodies of the model: job j1 with its own files (none, each
\* allowed count, one more than the free plan allows), j1 with a path signed
\* for j2, and a body without jobId.
Requests ==
    {Req("j1", "free", "u1", SignedPaths("j1", n)) : n \in ReqCounts}
    \cup {Req("j1", "pro", NoUser, SignedPaths("j2", 1))}
    \cup {Req("", "free", NoUser, SignedPaths("j1", 1))}

\* the test of files.length against the plan's limit left out
Rejected_NoLimit(req) == req.jobId = "" \/ Len(req.files) < 1

\* if (!jobId || !Array.isArray(files) || files.length < 1) -> 400
\* if (files.length > limit) -> 400
Rejected(req) ==
    \/ req.jobId = ""
    \/ Len(req.files) < 1
    \/ Len(req.files) > maxForPlan(req.plan)

\* POST /jobs: validate, docRef.set(...), publish the reference
PostJobs(req) ==
    /\ requests < MaxRequests
    /\ requests' = requests + 1
    /\ \/ /\ Rejected(req)
          /\ UNCHANGED <<jobs, published, wiped>>
       \* set() rejects: 500
       \/ /\ ~Rejected(req)
          /\ UNCHANGED <<jobs, published, wiped>>
       \* set() succeeds and publishMessage rejects: 500, the document stays
       \/ /\ ~Rejected(req)
          /\ jobs' = [jobs EXCEPT ![req.jobId] = NewJob(req.plan, req.userId, req.files)]
          /\ wiped' = wiped \ {req.jobId}
          /\ UNCHANGED published
       \/ /\ ~Rejected(req)
          /\ jobs' = [jobs EXCEPT ![req.jobId] = NewJob(req.plan, req.userId, req.files)]
          /\ wiped' = wiped \ {req.jobId}
          /\ published' = published \cup {req.jobId}
    /\ UNCHANGED <<impl, norm, reports, objects, run, purged, flagBy>>

\* DELETE /jobs/:jobId: 404 when absent, else mark the job user_deleted
DeleteJob(j) ==
    /\ requests < MaxRequests
    /\ requests' = requests + 1
    /\ \/ /\ jobs[j] # NoDoc
          /\ jobs' = [jobs EXCEPT ![j].userDeleted = TRUE, ![j].status = "user_deleted"]
       \/ UNCHANGED jobs
    /\ UNCHANGED <<impl, norm, wiped, reports, objects, published, run, purged, flagBy>>

OwnedReports(u) == {j \in JobIds : reports[j] # NoDoc /\ reports[j].userId = u}
OwnedJobs(u) == {j \in JobIds : jobs[j] # NoDoc /\ jobs[j].userId = u}

\* POST /delete-all { userId }: delete the user's reports in one batch, then
\* mark the user's jobs userDeleted in another; either commit may reject
DeleteAll(u) ==
    /\ requests < MaxRequests
    /\ requests' = requests + 1
    /\ \/ UNCHANGED <<reports, flagBy, jobs, wiped>>
       \/ /\ reports' = [j \in JobIds |-> IF j \in OwnedReports(u) THEN NoDoc ELSE reports[j]]
          /\ flagBy' = [j \in JobIds |-> IF j \in OwnedReports(u) THEN "none" ELSE flagBy[j]]
          /\ \/ UNCHANGED <<jobs, wiped>>
             \* both commits succeeded: the request has completed
             \/ /\ jobs' = [j \in JobIds |->
                              IF j \in OwnedJobs(u) THEN [jobs[j] EXCEPT !.userDeleted = TRUE]
                              ELSE jobs[j]]
                /\ wiped' = wiped \cup OwnedJobs(u)
    /\ UNCHANGED <<impl, norm, objects, published, run, purged>>

\* reportsCol.where('images_deleted', '==', false) ... older than an hour
Sweepable == {j \in JobIds : reports[j] # NoDoc /\ ~reports[j].images_deleted
                              /\ reports[j].old}

\* GET /admin/sweeper: set images_deleted on the reports found, one update
\* after the other; a rejected update ends the loop
Sweeper ==
    /\ requests < MaxRequests
    /\ requests' = requests + 1
    /\ \E S \in SUBSET Sweepable :
         /\ reports' = [j \in JobIds |->
                          IF j \in S THEN [reports[j] EXCEPT !.images_deleted = TRUE]
                          ELSE reports[j]]
         /\ flagBy' = [j \in JobIds |-> IF j \in S THEN "sweeper" ELSE flagBy[j]]
    /\ UNCHANGED <<impl, norm, wiped, jobs, objects, published, run, purged>>

\* an hour passes since the report was created
Tick(j) ==
    /\ reports[j] # NoDoc
    /\ ~reports[j].old
    /\ reports' = [reports EXCEPT ![j].old = TRUE]
    /\ UNCHANGED <<impl, norm, wiped, jobs, objects, published, run, requests,
                   purged, flagBy>>

Api ==
    \/ \E req \in Requests : PostJobs(req)
    \/ \E j \in JobIds : DeleteJob(j)
    \/ \E u \in Users : DeleteAll(u)
    \/ Sweeper
    \/ \E j \in JobIds : Tick(j)

\* The API and the deliveries of one worker instance, one after the other.
Next == Worker("r1") \/ Api

Spec == Init /\ [][Next]_vars

\* Duplicate deliveries served concurrently: job j1 is registered beside the
\* stale j2, and the two handler instances run side by side.
InitDup ==
    /\ impl \in Impls
    /\ jobs = [j \in JobIds |->
                 IF j = "j1" THEN NewJob("free", "u1", SignedPaths("j1", MaxFiles))
                 ELSE StaleJob(j)]
    /\ reports = [j \in JobIds |-> NoDoc]
    /\ objects \in Uploads
    /\ published = {"j1"}
    /\ run = [r \in Runs |-> IdleRun]
    \* the POST /jobs that registered j1
    /\ requests = 1
    /\ purged = {}
    /\ flagBy = [j \in JobIds |-> "none"]
    /\ norm = NormIdle
    /\ wiped = {}

NextDup == \E r \in Runs : Worker(r)

SpecDup == InitDup /\ [][NextDup]_vars

\* ------------------------------------------------------------ scoring calls
\* The values a JSON object can hold in the fields normalizeReport reads:
\* missing, null, in range, out of range, and of another type.
Ids == {Undef, Str("threats"), Str("THREATS"), Str("stonewalling"), Str("sarcasm"), Whole(7)}
Likelihoods == {Undef, Null, Num(0), Num(50), Num(100), Num(250), Num(-50), Str("high")}
Severities == {Undef, Whole(0), Whole(1), Whole(3), Whole(5), Whole(9), Str("severe")}
Frequencies == {Undef, Whole(0), Whole(2), Whole(5), Whole(9), Whole(-1), Str("often"), Obj}
Examples == {Undef, Null, Arr(0), Arr(2), Arr(7)}
Confidences == {Undef, Null, Num(0), Num(50), Num(150), Num(-20), Str("high")}
RiskLabels == {Undef, Str(""), Str("low"), Str("high"), Str("severe"), Whole(3)}
Receipts == {Undef, Null, Arr(0), Arr(3), Arr(31)}

\* a threats tactic at the top of every range, and one at the bottom
TopTactic == Tactic(Str("threats"), Undef, Whole(1), Undef, Whole(5), Whole(5), Undef)
ZeroTactic == Tactic(Str("contempt"), Undef, Whole(0), Undef, Whole(1), Whole(0), Undef)
MidTactic == Tactic(Str("stonewalling"), Undef, Num(50), Undef, Whole(3), Whole(2), Undef)

TacticInputs ==
    {Tactic(i, Undef, l, Undef, sv, f, Undef) :
        i \in {Str("threats"), Str("sarcasm")}, l \in Likelihoods,
        sv \in Severities, f \in Frequencies}
    \cup {Tactic(i, n, Whole(1), Undef, Whole(5), Whole(5), Undef) :
            i \in Ids, n \in {Undef, Str("Gaslighting")}}
    \cup {Tactic(Str("coercion"), Undef, l, pp, Whole(3), Undef, e) :
            l \in {Undef, Null}, pp \in {Undef, Num(50)}, e \in Examples}
    \cup {NullEntry, PrimitiveEntry}

\* a tactic whose first example quote is 300 characters long
LongQuoteTactic ==
    [Tactic(Str("darvo"), Undef, Num(50), Undef, Whole(3), Undef, Arr(2))
        EXCEPT !.quotes = <<300, QuoteLen>>]

PairInputs == {TopTactic, ZeroTactic, MidTactic, NullEntry, PrimitiveEntry}

\* n entries, all t
Repeat(t, n) == [k \in 1..n |-> t]

RawInputs ==
    {Raw(Undef, Undef, TRUE, <<t>>, Undef, Undef) : t \in TacticInputs}
    \cup {Raw(c, l, TRUE, ts, Undef, Undef) :
            c \in Confidences, l \in RiskLabels,
            ts \in {<<>>, <<TopTactic>>, <<MidTactic>>}}
    \* tactics missing, or not an array
    \cup {Raw(c, l, FALSE, <<>>, Undef, Undef) : c \in Confidences, l \in RiskLabels}
    \cup {Raw(Undef, Undef, TRUE, <<a, b>>, Undef, Undef) : a, b \in PairInputs}
    \cup {Raw(Undef, Undef, TRUE, Repeat(t, n), Undef, Undef) :
            t \in {TopTactic, MidTactic, ZeroTactic}, n \in 1..MaxTactics}
    \cup {Raw(Undef, Undef, TRUE, <<TopTactic>>, r, Undef) : r \in Receipts}
    \cup {Raw(Undef, Undef, TRUE, <<TopTactic>>, Obj, h) : h \in Receipts}
    \cup {Raw(Undef, Undef, TRUE, <<LongQuoteTactic>>, Undef, Undef)}

\* tactics with every field in its range: likelihood by quarters, severity by
\* halves, frequency by units
ScoreInputs ==
    {[NormTactic(PrimitiveEntry) EXCEPT !.likelihood = Num(25 * l),
                                        !.severity = Num(50 * sv),
                                        !.frequency = Whole(f)] :
        l \in 0..4, sv \in 2..10, f \in 0..5}

LabelInputs == {Whole(k) : k \in 0..100} \cup {NaN}

NormCalls ==
    {[NormCall EXCEPT !.kind = "raw", !.raw = r] : r \in RawInputs}
    \cup {[NormCall EXCEPT !.kind = "tactic", !.tactic = t] : t \in ScoreInputs}
    \cup {[NormCall EXCEPT !.kind = "score", !.score = sc] : sc \in LabelInputs}

\* The scoring functions of the first definition, each called on an argument.
InitNorm ==
    /\ impl = 1
    /\ jobs = [j \in JobIds |-> NoDoc]
    /\ reports = [j \in JobIds |-> NoDoc]
    /\ objects = {}
    /\ published = {}
    /\ run = [r \in Runs |-> IdleRun]
    /\ requests = 0
    /\ purged = {}
    /\ flagBy = [j \in JobIds |-> "none"]
    /\ norm \in NormCalls
    /\ wiped = {}

\* return normalizeReport(raw)
NormalizeReport ==
    /\ norm.kind = "raw" /\ ~norm.done
    /\ norm' = [norm EXCEPT !.done = TRUE, !.out = normalizeReport(norm.raw)]
    /\ UNCHANGED <<impl, jobs, reports, objects, published, run, requests, purged, flagBy,
                   wiped>>

\* obj.score = tacticScore(obj)
TacticScore ==
    /\ norm.kind = "tactic" /\ ~norm.done
    /\ norm' = [norm EXCEPT !.done = TRUE, !.result = tacticScore(norm.tactic)]
    /\ UNCHANGED <<impl, jobs, reports, objects, published, run, requests, purged, flagBy,
                   wiped>>

\* riskLabel(out.risk_score)
RiskLabel ==
    /\ norm.kind = "score" /\ ~norm.done
    /\ norm' = [norm EXCEPT !.done = TRUE, !.label = riskLabel(norm.score)]
    /\ UNCHANGED <<impl, jobs, reports, objects, published, run, requests, purged, flagBy,
                   wiped>>

NextNorm == NormalizeReport \/ TacticScore \/ RiskLabel

SpecNorm == InitNorm /\ [][NextNorm]_vars

\* ------------------------------------------------------------ properties
JobOf(r) == jobs[run[r].jobId]
Finished(r) == run[r].pc = "done"
\* the job's status is one the pipeline wrote and no API request marked it
PipelineOwned(j) ==
    /\ jobs[j] # NoDoc
    /\ jobs[j].status \in {"processing", "complete", "error"}
    /\ ~jobs[j].userDeleted
Calls == {"fetch", "ocr", "classify", "report", "delete", "flag"}

\* C1: every delivery to /_pubsub/analyze is answered 200, whatever the
\* message holds and whatever happens in the run.
C1_AlwaysAcked == \A r \in Runs : Finished(r) => run[r].code = 200

\* C2: a run that loaded a job, passed the file-count check and then failed
\* at a status write, the classification, the report write or the report flag
\* update ends with the job in status error carrying an error string of at
\* most 500 characters, never with the job left in processing.
C2_FailureReachesError ==
    \A r \in Runs :
        (/\ Finished(r)
         /\ run[r].fail \in {"processing", "classify", "malformed", "normalize",
                            "report", "finalize", "flag"}
         /\ PipelineOwned(run[r].jobId))
        => /\ JobOf(r).status = "error"
           /\ JobOf(r).error.kind = "string"
           /\ JobOf(r).error.len <= 500

\* C3: a run that loads a job with more files than maxForPlan(plan) allows
\* writes error/too_many_files and nothing else: it never writes processing
\* or complete, fetches or OCRs no file, does not call the classifier,
\* writes no report and deletes no file.
C3_TooManyFilesOnly ==
    \A r \in Runs :
        run[r].over =>
            /\ run[r].did = {}
            /\ \A k \in 1..Len(run[r].writes) : run[r].writes[k] \in {"too_many_files", "error"}
            /\ run[r].pc \in {"limit", "catch", "done"}
            /\ (Finished(r) /\ run[r].fail = "none") => run[r].writes = <<"too_many_files">>

C3_Witness ==
    \E r \in Runs :
        /\ run[r].over /\ Finished(r) /\ run[r].writes = <<"too_many_files">>
        /\ JobOf(r).status = "error" /\ JobOf(r).error = TooManyFiles
        /\ Path(run[r].jobId, 0) \in objects

\* C4: in a run that passed the file-count check, processing is written
\* before the first file fetch, OCR call or classification call; when that
\* write fails the run makes none of those calls.
C4_ProcessingBeforeCalls ==
    \A r \in Runs :
        /\ run[r].did \cap {"fetch", "ocr", "classify"} # {}
              => run[r].writes # <<>> /\ run[r].writes[1] = "processing"
        /\ run[r].fail = "processing" => run[r].did = {}

C4_Witness ==
    \E r \in Runs :
        /\ {"fetch", "ocr", "classify"} \subseteq run[r].did
        /\ run[r].writes[1] = "processing"

\* C5 as stated: no step moves a job from complete or error to processing.
C5_NeverBackToProcessing ==
    [][\A j \in JobIds :
          (jobs[j] # NoDoc /\ jobs[j].status \in {"complete", "error"})
              => jobs'[j].status # "processing"]_vars

\* C5 amended: the statuses a run writes are processing, complete and error,
\* and it writes processing only as its first status write.
C5_ProcessingOnlyFirst ==
    \A r \in Runs :
        \A k \in 1..Len(run[r].writes) :
            /\ run[r].writes[k] \in {"processing", "complete", "error", "too_many_files"}
            /\ run[r].writes[k] = "processing" => k = 1

\* a redelivery took a complete job through processing to complete again
C5_Witness ==
    \E r \in Runs :
        /\ run[r].seen # NoJson
        /\ run[r].writes = <<"processing", "complete">>

\* C6: a delivery whose job does not exist is answered 200 and creates or
\* modifies no job, no report and no stored file.
C6_AbsentJobHandled ==
    \A r \in Runs :
        (Finished(r) /\ run[r].body = "job-not-found")
        => /\ run[r].code = 200
           /\ run[r].writes = <<>>
           /\ run[r].did = {}

\* C7: a run that persisted its report and met no failing store call ends
\* with the job complete; when every deletion succeeded or found nothing the
\* job has no warning and the report's images_deleted is true, and when a
\* deletion failed the job has the warning and images_deleted is false.
C7_PurgeOutcome ==
    \A r \in Runs :
        (/\ Finished(r) /\ run[r].fail = "none" /\ "report" \in run[r].did
         /\ PipelineOwned(run[r].jobId)
         /\ reports[run[r].jobId] # NoDoc
         /\ flagBy[run[r].jobId] # "sweeper")
        => /\ JobOf(r).status = "complete"
           /\ run[r].deleted =>
                 ~JobOf(r).warn /\ reports[run[r].jobId].images_deleted
           /\ ~run[r].deleted =>
                 JobOf(r).warn /\ ~reports[run[r].jobId].images_deleted

\* C8 as stated: images_deleted is true only if some run's purge of the
\* job's files fully succeeded.
C8_FlagOnlyAfterPurge ==
    \A j \in JobIds :
        (reports[j] # NoDoc /\ reports[j].images_deleted) => j \in purged

\* C8 amended: images_deleted is true only if a run set it after a purge of
\* the job's files that fully succeeded, or the admin sweeper set it on a
\* report more than an hour old.
C8_FlagAfterPurgeOrSweep ==
    \A j \in JobIds :
        (reports[j] # NoDoc /\ reports[j].images_deleted)
        => \/ flagBy[j] = "run" /\ j \in purged
           \/ flagBy[j] = "sweeper" /\ reports[j].old

C8_Witness ==
    \E j \in JobIds :
        /\ reports[j] # NoDoc /\ reports[j].images_deleted
        /\ flagBy[j] = "sweeper" /\ j \notin purged
        /\ \E p \in objects : p.job = j

\* the classifier answered the same text with the same output in both runs
SameAnswers == run["r1"].asked = run["r2"].asked => run["r1"].got = run["r2"].got

\* the cleaned text of every file of the job, in file order
FullText(files) == ClassifierInput(impl, [k \in 1..Len(files) |-> ocrBuffer(files[k])])

\* C9: when a run is delivered for a job that is already complete, no call
\* of either run fails (every purge succeeds) and the classifier answers the
\* same text with the same output, the report stored once the run has
\* finished has the content the earlier run stored, and the job is complete
\* again.
C9_RedeliveryKeepsReport ==
    \A r \in Runs :
        (/\ Finished(r) /\ run[r].seen # NoJson
         /\ \A q \in Runs : /\ Finished(q) /\ run[q].fail = "none"
                            /\ ~run[q].transient /\ run[q].deleted
         /\ SameAnswers)
        => /\ JobOf(r).status = "complete"
           /\ reports[run[r].jobId] # NoDoc
           /\ reports[run[r].jobId].json = run[r].seen

\* C10: two runs of the same reference, interleaved in any way, with no
\* failing call (every purge succeeds): once both have finished the job is
\* complete with reportId = jobId and the stored report is the one a lone
\* run produces, the classifier's answer to the text of all the files.
C10_DuplicateRunsConverge ==
    (/\ \A r \in Runs :
           /\ Finished(r) /\ run[r].jobId = "j1" /\ run[r].fail = "none"
           /\ ~run[r].transient /\ run[r].allPresent /\ run[r].deleted
     /\ run["r1"].seen = NoJson /\ run["r2"].seen = NoJson
     /\ SameAnswers)
    => /\ jobs["j1"].status = "complete"
       /\ jobs["j1"].reportId = "j1"
       /\ reports["j1"] # NoDoc
       /\ \E r \in Runs : /\ run[r].asked = FullText(jobs["j1"].files)
                          /\ reports["j1"].json = run[r].got

\* ------------------------------------------------------------ scoring properties
InRange(v, lo, hi) == IsNum(v) /\ lo * Scale <= v.n /\ v.n <= hi * Scale
IsWhole(v) == IsNum(v) /\ v.n % Scale = 0
\* a finished call of normalizeReport
Normalized == norm.kind = "raw" /\ norm.done

\* C11: normalizeReport returns for every input object without raising, and
\* its result has an integer risk_score in 0..100, a risk_label among low,
\* medium and high, a confidence in [0,1], and for each tactic an id of the
\* taxonomy or "other", likelihood in [0,1], severity in [1,5], frequency in
\* [0,5] and an integer score in 0..100.
C11_NormalizeTotalAndValid ==
    Normalized =>
        /\ ~norm.out.threw
        /\ IsWhole(norm.out.risk_score) /\ InRange(norm.out.risk_score, 0, 100)
        /\ norm.out.risk_label \in {Str("low"), Str("medium"), Str("high")}
        /\ InRange(norm.out.confidence, 0, 1)
        /\ \A k \in 1..Len(norm.out.tactics) :
             LET t == norm.out.tactics[k] IN
             /\ t.id \in TACTIC_IDS \cup {"other"}
             /\ InRange(t.likelihood, 0, 1)
             /\ InRange(t.severity, 1, 5)
             /\ InRange(t.frequency, 0, 5)
             /\ IsWhole(t.score) /\ InRange(t.score, 0, 100)

\* C12: whatever text the classification model returns, the classification
\* stage returns a report object: a run whose call to the model was answered
\* does not fail at that stage, and when nothing else fails it persists a
\* report and ends with the job complete.
C12_MalformedOutputNotFatal ==
    \A r \in Runs :
        /\ run[r].fail \notin {"malformed", "normalize"}
        /\ (/\ Finished(r) /\ "classify" \in run[r].did /\ run[r].fail = "none"
            /\ PipelineOwned(run[r].jobId))
           => "report" \in run[r].did /\ JobOf(r).status = "complete"

\* the texts of the files that are in the bucket, in file order
RECURSIVE PresentTexts(_)
PresentTexts(files) ==
    IF files = <<>> THEN <<>>
    ELSE (IF files[1] \in objects THEN <<ocrBuffer(files[1])>> ELSE <<>>)
         \o PresentTexts(Tail(files))

\* C13: a file whose fetch, preprocessing or OCR fails is skipped and never
\* aborts the run: the run goes on to call the classifier, and (when no file
\* that is in the bucket failed) the classifier is given the texts of the
\* files that could be read, in file order.
C13_FailedFilesSkipped ==
    \A r \in Runs :
        /\ run[r].fail # "ocr"
        /\ (run[r].pc = "report" /\ ~run[r].transient)
           => run[r].asked = ClassifierInput(impl, PresentTexts(run[r].files))

\* C14: the text passed to the classifier is never empty; when the cleaned
\* concatenated OCR text is empty (no file read, or only UI chrome read) the
\* classifier is given the sentinel NO_TEXT_EXTRACTED.
C14_ClassifierInputNeverEmpty ==
    \A r \in Runs :
        /\ "classify" \in run[r].did => run[r].asked # <<>>
        /\ (run[r].pc = "report" /\ cleanOcr(JoinTexts(run[r].texts)) = <<>>)
           => run[r].asked = Sentinel

\* a finished call of tacticScore
Scored == norm.kind = "tactic" /\ norm.done
\* 4 * Scale times 40 l + 35 (sv - 1) / 4 + 25 min(1, f / 5), for l, sv and f
\* in hundredths
Weighted(l, sv, f) == 160 * l + 35 * (sv - Scale) + Min(20 * f, 100 * Scale)

\* C15: for likelihood in [0,1], severity in [1,5] and frequency in [0,5]
\* the per-tactic score is the integer nearest to
\* 40 likelihood + 35 (severity - 1) / 4 + 25 min(1, frequency / 5), it lies in
\* 0..100, it is 100 at (1, 5, 5) and 0 at (0, 1, 0).
C15_TacticScoreFormula ==
    Scored =>
        LET t == norm.tactic
            x == Weighted(t.likelihood.n, t.severity.n, t.frequency.n)
            k == norm.result.n \div Scale
        IN /\ IsWhole(norm.result) /\ InRange(norm.result, 0, 100)
           \* |k - x / (4 Scale)| <= 1/2
           /\ 2 * (4 * Scale * k - x) <= 4 * Scale
           /\ 2 * (x - 4 * Scale * k) <= 4 * Scale
           /\ (t.likelihood = Whole(1) /\ t.severity = Whole(5) /\ t.frequency = Whole(5))
                 => norm.result = Whole(100)
           /\ (t.likelihood = Whole(0) /\ t.severity = Whole(1) /\ t.frequency = Whole(0))
                 => norm.result = Whole(0)

C15_Witness ==
    /\ Scored
    /\ norm.tactic.likelihood = Whole(1) /\ norm.tactic.severity = Whole(5)
    /\ norm.tactic.frequency = Whole(5) /\ norm.result = Whole(100)

\* a finished call of normalizeReport that returned
Returned == Normalized /\ ~norm.out.threw
\* a finished call of riskLabel
Labelled == norm.kind = "score" /\ norm.done

\* C16: risk_label is the upstream risk_label, verbatim, when the input
\* supplies one (a value that is not empty); otherwise it is derived from the
\* computed risk_score: low below 34, medium from 34 to 66, high above 66.
C16_RiskLabelRule ==
    /\ Returned =>
         IF Truthy(norm.raw.risk_label)
         THEN norm.out.risk_label = norm.raw.risk_label
         ELSE /\ norm.out.risk_label = Str(riskLabel(norm.out.risk_score))
              /\ IsNum(norm.out.risk_score) =>
                   LET k == norm.out.risk_score.n \div Scale IN
                   norm.out.risk_label =
                       Str(IF k <= 33 THEN "low" ELSE IF k <= 66 THEN "medium" ELSE "high")
    /\ (Labelled /\ IsNum(norm.score)) =>
         LET k == norm.score.n \div Scale IN
         /\ k <= 33 => norm.label = "low"
         /\ (34 <= k /\ k <= 66) => norm.label = "medium"
         /\ k >= 67 => norm.label = "high"

\* an upstream label kept against the label the score gives
C16_Witness ==
    /\ Returned
    /\ norm.raw.risk_label = Str("high")
    /\ norm.out.risk_label = Str("high")
    /\ norm.out.risk_score = Whole(0)

\* C17: for an input with exactly one tactic, whatever its id and whatever
\* the score s in 0..100 computed for it, the overall risk_score is s.
C17_SingleTacticRisk ==
    (Returned /\ Len(norm.out.tactics) = 1 /\ IsNum(norm.out.tactics[1].score))
    => norm.out.risk_score = norm.out.tactics[1].score

\* a single threats tactic with score 100
C17_Witness ==
    /\ Returned /\ Len(norm.out.tactics) = 1
    /\ norm.out.tactics[1].id = "threats"
    /\ norm.out.tactics[1].score = Whole(100)
    /\ norm.out.risk_score = Whole(100)

\* C18 as stated: with the tactics list empty or missing, risk_score is 0 and
\* risk_label is low.
C18_EmptyTacticsLow ==
    (Returned /\ norm.out.tactics = <<>>)
    => norm.out.risk_score = Whole(0) /\ norm.out.risk_label = Str("low")

\* C18 amended: with the tactics list empty or missing, risk_score is 0, and
\* risk_label is low unless the input supplies a risk_label, which is kept.
C18_EmptyTacticsZeroRisk ==
    (Returned /\ norm.out.tactics = <<>>)
    => /\ norm.out.risk_score = Whole(0)
       /\ norm.out.risk_label = Or(norm.raw.risk_label, Str("low"))

\* tactics missing, an upstream label of severe
C18_Witness ==
    /\ Returned /\ ~norm.raw.tactics.isArray
    /\ norm.raw.risk_label = Str("severe")
    /\ norm.out.risk_score = Whole(0)
    /\ norm.out.risk_label = Str("severe")

\* the sum of the contribution_pct of the tactics, in hundredths
RECURSIVE SumPct(_)
SumPct(ts) == IF ts = <<>> THEN 0 ELSE ts[1].contribution_pct.n + SumPct(Tail(ts))

\* C19: for a tactics list of any length whose scores are numbers, when some
\* score is not zero the contribution_pct of the tactics sum to a value
\* within 1.0 of 100, and when every score is zero every contribution_pct is 0.
C19_ContributionsSumTo100 ==
    (Returned /\ \A k \in 1..Len(norm.out.tactics) : IsNum(norm.out.tactics[k].score))
    => IF \E k \in 1..Len(norm.out.tactics) : norm.out.tactics[k].score # Num(0)
       THEN /\ SumPct(norm.out.tactics) >= 99 * Scale
            /\ SumPct(norm.out.tactics) <= 101 * Scale
       ELSE \A k \in 1..Len(norm.out.tactics) :
                norm.out.tactics[k].contribution_pct = Num(0)

\* C20: once a job exists its file list never changes: no step of the
\* pipeline or of the API, a second POST /jobs with the same jobId included,
\* changes the files of an existing job.
C20_FilesImmutable ==
    [][\A j \in JobIds :
          (jobs[j] # NoDoc /\ jobs'[j] # NoDoc) => jobs'[j].files = jobs[j].files]_vars

\* ------------------------------------------------------------ registration and run order
\* a step in which POST /jobs wrote the document of j: the API changed it
\* and did not mark it deleted
RegistrationWrite(j) == run' = run /\ jobs'[j] # jobs[j] /\ ~jobs'[j].userDeleted

\* C21: every job document POST /jobs writes has status uploaded and between
\* 1 and maxForPlan(plan) files, and a job reference is published only once
\* that document has been written.
C21_RegistrationValid ==
    [][\A j \in JobIds :
          /\ RegistrationWrite(j) =>
                /\ jobs'[j].status = "uploaded"
                /\ 1 <= Len(jobs'[j].files)
                /\ Len(jobs'[j].files) <= maxForPlan(jobs'[j].plan)
          /\ (j \in published' /\ j \notin published) =>
                /\ jobs'[j] # NoDoc
                /\ jobs'[j].status = "uploaded"
                /\ 1 <= Len(jobs'[j].files)
                /\ Len(jobs'[j].files) <= maxForPlan(jobs'[j].plan)]_vars

\* j1 registered with the most files a request carries, and published
C21_Witness ==
    /\ jobs["j1"] # NoDoc /\ jobs["j1"].status = "uploaded"
    /\ Len(jobs["j1"].files) = MaxFiles
    /\ "j1" \in published

\* run r's status write of this step was accepted and is complete
WroteComplete(r) ==
    /\ Len(run'[r].writes) = Len(run[r].writes) + 1
    /\ run'[r].writes[Len(run'[r].writes)] = "complete"

\* C22: when a run writes complete to its job the same write sets reportId
\* to the jobId, and the run persisted the report with that identifier
\* before; a run whose report write failed never writes complete.
C22_CompleteAfterReport ==
    [][\A r \in Runs :
          /\ WroteComplete(r) =>
                /\ jobs'[run[r].jobId].status = "complete"
                /\ jobs'[run[r].jobId].reportId = run[r].jobId
                /\ "report" \in run[r].did
                /\ run[r].fail = "none"
          /\ run'[r].fail = "report" =>
                \A k \in 1..Len(run'[r].writes) : run'[r].writes[k] # "complete"]_vars

\* a run that stored its report and then completed the job
C22_Witness ==
    \E r \in Runs :
        /\ run[r].writes = <<"processing", "complete">>
        /\ "report" \in run[r].did
        /\ JobOf(r).status = "complete" /\ JobOf(r).reportId = run[r].jobId
        /\ reports[run[r].jobId] # NoDoc

\* the steps at which a run fails before its report is stored
BeforeReport == {"get", "limit", "processing", "ocr", "classify", "malformed",
                 "normalize", "report"}

\* C23: a run issues the deletions of its job's files only after its report
\* write succeeded: every step that removes an object is the step of a run
\* that has stored its report, and a run whose classification or report
\* write failed, or whose job had too many files, deletes no file.
C23_DeleteAfterReport ==
    [][/\ objects' # objects =>
             \E r \in Runs :
                /\ run'[r] # run[r]
                /\ "report" \in run[r].did
                /\ run[r].fail = "none" /\ ~run[r].over
                /\ (objects \ objects') \subseteq FileSet(run[r].files)
       /\ \A r \in Runs :
             /\ "delete" \in run'[r].did => "report" \in run'[r].did
             /\ (run'[r].over \/ run'[r].fail \in BeforeReport)
                   => "delete" \notin run'[r].did]_vars

\* a run that stored its report and then removed every file of its job
C23_Witness ==
    \E r \in Runs :
        /\ run[r].pc = "finalize" /\ run[r].allPresent /\ run[r].files # <<>>
        /\ {"report", "delete"} \subseteq run[r].did
        /\ FileSet(run[r].files) \cap objects = {}

\* C24: in every normalized report each tactic keeps at most 5 example
\* quotes, each of at most 280 characters, and the receipts list, taken from
\* a flat list or from a nested highlights list, has at most 30 entries.
C24_QuotesAndReceiptsCapped ==
    Returned =>
        /\ \A k \in 1..Len(norm.out.tactics) :
             LET t == norm.out.tactics[k] IN
             /\ t.examples.n <= 5
             /\ Len(t.quotes) = t.examples.n
             /\ \A q \in 1..Len(t.quotes) : t.quotes[q] <= 280
        /\ norm.out.receipts.n <= 30

\* C25: once a run has written complete to its job, the same run never
\* afterwards writes error over it, whatever later step fails, the update
\* that sets images_deleted on the report included.
C25_NoErrorAfterComplete ==
    \A r \in Runs :
        \A k, m \in 1..Len(run[r].writes) :
            (k < m /\ run[r].writes[k] = "complete") => run[r].writes[m] # "error"

\* C26: once DELETE /jobs/:jobId has set a job's status to user_deleted, no
\* step of a pipeline run, in flight at that time or delivered later, changes
\* the status of that job or writes a report for it.
C26_UserDeletedRespected ==
    [][\A j \in JobIds :
          (jobs[j] # NoDoc /\ jobs[j].status = "user_deleted" /\ run' # run)
          => /\ jobs'[j].status = "user_deleted"
             /\ reports'[j] = reports[j]]_vars

\* C27: after a POST /delete-all for a user has completed, no report owned
\* by that user exists for the jobs the request covered, even when a run for
\* one of them was in flight during the request: the run does not create the
\* report again.
C27_DeleteAllFinal ==
    \A j \in wiped :
        ~(reports[j] # NoDoc /\ reports[j].userId = jobs[j].userId)

\* C28: a run for job j deletes only objects that belong to j, the paths
\* uploads/j/i.jpg signed for it: every object a step removes from the
\* bucket is removed by a run whose job is the one the path was signed for.
C28_DeletesOwnObjectsOnly ==
    [][\A p \in objects \ objects' :
          \E r \in Runs : run'[r] # run[r] /\ p.job = run[r].jobId]_vars

====
